---- MODULE Spec2Model ----
(***************************************************************************)
(* ChunksTabularExtractor (parsera/engine/chunks_extractor.py): the        *)
(* split / sequential-extract / merge pipeline around an opaque chat       *)
(* model.  One extractor instance, whose attribute chunks_data is shared   *)
(* by every run call made on it; each run call is a coroutine that is      *)
(* suspended only at `await self.model.ainvoke(...)`, so everything        *)
(* between two awaits is one atomic step.                                  *)
(***************************************************************************)
EXTENDS Integers, Sequences, FiniteSets, TLC

\* ------------------------------------------------------------------ bounds
\* the two run calls made on the one extractor instance
Runs == {"A", "B"}
\* a further run call on the same extractor, for another document, made
\* between or alongside the two
Between == "C"
AllRuns == Runs \cup {Between}
\* windows per document and records per model response, interleaved runs
ConcWindows == 2
ConcLen == 1
\* windows per document and records per model response, one run on its own
MaxWindows == 3
MaxLen == 6

\* ------------------------------------------------------- program constants
overlap_factor == 3

\* ------------------------------------------------------------ python values
\* A parsed JSON value: a list of records, or a mapping (items = its keys in
\* insertion order).  None is Python's None.
None == [kind |-> "none", items |-> <<>>]

ListOf(n) == [kind |-> "list", items |-> [k \in 1..n |-> k]]

DictOf(n) == [kind |-> "dict", items |-> [k \in 1..n |-> k]]

\* the values a model response parses to when two runs are interleaved:
\* record lists of every length up to ConcLen
ConcValues == {ListOf(n) : n \in 0..ConcLen}

\* the values a model response parses to when one run is on its own: record
\* lists of every length up to MaxLen, and a single mapping instead of a list
SingleValues == {ListOf(n) : n \in 0..MaxLen} \cup {DictOf(1)}

\* the attribute schema argument of run: a mapping, or None
Schema == [kind |-> "dict", items |-> <<1>>]

AttributeArgs == {Schema, None}

\* `not x`: None and empty containers are falsy
Falsy(x) == x.kind = "none" \/ Len(x.items) = 0

\* list(x) when x is not already a list: a mapping becomes the list of its keys
ToList(x) == IF x.kind = "list" THEN x ELSE [kind |-> "list", items |-> x.items]

\* json.dumps(x): the JSON text of x
Dumps(x) == [json |-> x]

\* a model completion: text that is the JSON of some value, or text that is
\* not JSON at all
Completions(values) ==
    {[valid |-> TRUE, text |-> Dumps(v)] : v \in values}
        \cup {[valid |-> FALSE, text |-> Dumps(None)]}

\* JsonOutputParser().parse(output.content)
ParseOk(c) == c.valid

Parse(c) == c.text.json

\* ------------------------------------------------------------ configuration
\* the prompt attributes of the extractor class; FALSE means the attribute
\* is None
AllPresent ==
    [system_prompt |-> TRUE, prompt_template |-> TRUE,
     append_prompt_template |-> TRUE, prompt_merge_template |-> TRUE]

Configs ==
    {AllPresent} \cup
    {[AllPresent EXCEPT ![f] = FALSE] :
        f \in {"system_prompt", "prompt_template",
               "append_prompt_template", "prompt_merge_template"}}

VARIABLES
    config,        \* prompt attributes of the extractor
    chunks_data,   \* self.chunks_data
    pc,            \* per run: idle, extracting, merging, returned, failed
    chunks,        \* per run: len(chunks) after the split
    attributes,    \* per run: the attributes argument
    chunk_data,    \* per run: the local chunk_data of the loop
    window,        \* per run: ordinal of the window being extracted
    output,        \* per run: the value run returned
    error,         \* per run: the exception run raised
    inflight,      \* model calls issued and not yet answered
    calls,         \* per run: every request issued, in order
    returns        \* per run: the outcome of every answered call, in order

vars == <<config, chunks_data, pc, chunks, attributes, chunk_data, window,
          output, error, inflight, calls, returns>>

\* ------------------------------------------------------------------ requests
NoError == ""

NoText == Dumps(None)

\* what one model.ainvoke call carries: the system message (which prompt
\* attribute it was built from), the human message (which template, and the
\* text substituted for each placeholder), and the run that awaits the answer
Request(r, kind, w, system, template, elements, previous_data, jsons_list) ==
    [run |-> r, kind |-> kind, window |-> w, system |-> system,
     template |-> template, markdown |-> w, elements |-> elements,
     previous_data |-> previous_data, jsons_list |-> jsons_list]

NoRequest == Request("", "none", 0, "", "", NoText, NoText, <<>>)

Max(a, b) == IF a >= b THEN a ELSE b

\* variant: the division rounded down
CeilAsFloor(a, b) == a \div b

\* math.ceil(a / b) for a >= 0, b > 0
Ceil(a, b) == IF a % b = 0 THEN a \div b ELSE (a \div b) + 1

\* max(1, math.ceil(len(previous_data) / self.overlap_factor))
Cutoff(len) == Max(1, Ceil(len, overlap_factor))

\* s[-k:] of a Python list
NegSlice(s, k) ==
    IF k = 0 THEN s ELSE SubSeq(s, Max(1, Len(s) - k + 1), Len(s))

\* previous_tail of extract, for a truthy previous_data
PreviousTail(previous_data) ==
    LET prev == ToList(previous_data) IN
    IF Len(prev.items) > 0
    THEN Dumps([kind |-> "list",
                items |-> NegSlice(prev.items, Cutoff(Len(prev.items)))])
    ELSE Dumps(ListOf(0))

\* variant: a continuation request is sent with append_system_prompt as its
\* system message
extractAppendSystem(r, w, attrs, previous_data, cfg) ==
    LET elements == Dumps(attrs) IN
    IF Falsy(previous_data)
    THEN IF cfg.prompt_template
         THEN [raised |-> NoError,
               request |-> Request(r, "extract", w, "system_prompt",
                                   "prompt_template", elements, NoText, <<>>)]
         ELSE [raised |-> "AttributeError", request |-> NoRequest]
    ELSE IF cfg.append_prompt_template
         THEN [raised |-> NoError,
               request |-> Request(r, "extract", w, "append_system_prompt",
                                   "append_prompt_template", elements,
                                   PreviousTail(previous_data), <<>>)]
         ELSE [raised |-> "AttributeError", request |-> NoRequest]

\* extract up to its await: the request it sends, or the exception raised
\* while the human message is formatted (None has no .format)
extract(r, w, attrs, previous_data, cfg) ==
    LET elements == Dumps(attrs) IN
    IF Falsy(previous_data)
    THEN IF cfg.prompt_template
         THEN [raised |-> NoError,
               request |-> Request(r, "extract", w, "system_prompt",
                                   "prompt_template", elements, NoText, <<>>)]
         ELSE [raised |-> "AttributeError", request |-> NoRequest]
    ELSE IF cfg.append_prompt_template
         THEN [raised |-> NoError,
               request |-> Request(r, "extract", w, "system_prompt",
                                   "append_prompt_template", elements,
                                   PreviousTail(previous_data), <<>>)]
         ELSE [raised |-> "AttributeError", request |-> NoRequest]

\* merge_all_data up to its await
merge_all_data(r, all_data, attrs, cfg) ==
    LET elements == Dumps(attrs)
        json_list == [k \in 1..Len(all_data.items) |-> Dumps(all_data.items[k])]
    IN  IF cfg.prompt_merge_template
        THEN [raised |-> NoError,
              request |-> Request(r, "merge", 0, "system_merge_prompt",
                                  "prompt_merge_template", elements, NoText,
                                  json_list)]
        ELSE [raised |-> "AttributeError", request |-> NoRequest]

\* ------------------------------------------------------------ run, by steps
\* variant: the branch test written as len(chunks) != 1
IsMultiWindowNotOne(n) == n # 1

\* variant: the branch test written as len(chunks) >= 1
IsMultiWindowFromOne(n) == n >= 1

\* len(chunks) > 1
IsMultiWindow(n) == n > 1

\* variant: the loop stops one window early
LoopDoneEarly(w, n) == w + 2 >= n

\* the for loop of run has no element left after window w of n
LoopDone(w, n) == w + 1 >= n

\* variant: the new partial is put in front of the list
PrependChunk(cd, v) == [cd EXCEPT !.items = <<v>> \o @]

\* self.chunks_data.append(chunk_data)
AppendChunk(cd, v) == [cd EXCEPT !.items = Append(@, v)]

\* what the awaiting run got back from one model call: a parsed value, or
\* the exception raised by the call or by the parser
Outcome(status, v, e) == [status |-> status, value |-> v, error |-> e]

\* exceptions an awaited model call can raise into the run
CallErrors == {"ModelCallError", "CancelledError"}

\* the run raises e; fl is what remains in flight
Raise(r, e, fl) ==
    /\ pc' = [pc EXCEPT ![r] = "failed"]
    /\ error' = [error EXCEPT ![r] = e]
    /\ inflight' = fl
    /\ UNCHANGED <<calls, output>>

\* the run sends req and suspends at pos
Send(r, req, pos, fl) ==
    /\ pc' = [pc EXCEPT ![r] = pos]
    /\ inflight' = fl \cup {req}
    /\ calls' = [calls EXCEPT ![r] = Append(@, req)]
    /\ UNCHANGED <<error, output>>

SendOrRaise(r, e, pos, fl) ==
    IF e.raised = NoError THEN Send(r, e.request, pos, fl)
    ELSE Raise(r, e.raised, fl)

Init ==
    /\ config \in Configs
    /\ chunks_data = None
    /\ pc = [r \in AllRuns |-> "idle"]
    /\ chunks = [r \in AllRuns |-> 0]
    /\ attributes = [r \in AllRuns |-> None]
    /\ chunk_data = [r \in AllRuns |-> None]
    /\ window = [r \in AllRuns |-> 0]
    /\ output = [r \in AllRuns |-> None]
    /\ error = [r \in AllRuns |-> NoError]
    /\ inflight = {}
    /\ calls = [r \in AllRuns |-> <<>>]
    /\ returns = [r \in AllRuns |-> <<>>]

\* variant: the extract calls of all windows are started together instead
\* of one per loop iteration
RunCallAll(r, n, attrs) ==
    /\ pc[r] = "idle"
    /\ UNCHANGED <<config, returns, window, error, output>>
    /\ config.system_prompt /\ config.prompt_template
    /\ IsMultiWindow(n)
    /\ chunks' = [chunks EXCEPT ![r] = n]
    /\ attributes' = [attributes EXCEPT ![r] = attrs]
    /\ chunks_data' = ListOf(0)
    /\ chunk_data' = [chunk_data EXCEPT ![r] = None]
    /\ pc' = [pc EXCEPT ![r] = "loop"]
    /\ inflight' = inflight \cup
            {extract(r, w, attrs, None, config).request : w \in 0..(n - 1)}
    /\ calls' = [calls EXCEPT ![r] =
            [k \in 1..n |-> extract(r, k - 1, attrs, None, config).request]]

\* variant: the single-window branch hands extract the last partial still
\* held in self.chunks_data as previous_data
RunCallStale(r, n, attrs) ==
    /\ pc[r] = "idle"
    /\ UNCHANGED <<config, returns>>
    /\ IF ~config.system_prompt \/ ~config.prompt_template
       THEN /\ Raise(r, "ValueError", inflight)
            /\ UNCHANGED <<chunks_data, chunks, attributes, chunk_data, window>>
       ELSE /\ chunks' = [chunks EXCEPT ![r] = n]
            /\ attributes' = [attributes EXCEPT ![r] = attrs]
            /\ UNCHANGED window
            /\ IF IsMultiWindow(n)
               THEN /\ chunks_data' = ListOf(0)
                    /\ chunk_data' = [chunk_data EXCEPT ![r] = None]
                    /\ SendOrRaise(r, extract(r, 0, attrs, None, config),
                                   "loop", inflight)
               ELSE /\ UNCHANGED <<chunks_data, chunk_data>>
                    /\ IF n = 0
                       THEN Raise(r, "IndexError", inflight)
                       ELSE LET held == chunks_data.items
                                prev == IF Len(held) > 0 THEN held[Len(held)]
                                        ELSE None
                            IN  SendOrRaise(r, extract(r, 0, attrs, prev, config),
                                            "single", inflight)

\* run(content, attributes) from its call to its first await: the two
\* checks, the split into n windows, and the first extract call
RunCall(r, n, attrs) ==
    /\ pc[r] = "idle"
    /\ UNCHANGED <<config, returns>>
    /\ IF ~config.system_prompt \/ ~config.prompt_template
       THEN /\ Raise(r, "ValueError", inflight)
            /\ UNCHANGED <<chunks_data, chunks, attributes, chunk_data, window>>
       ELSE /\ chunks' = [chunks EXCEPT ![r] = n]
            /\ attributes' = [attributes EXCEPT ![r] = attrs]
            /\ UNCHANGED window
            /\ IF IsMultiWindow(n)
               THEN /\ chunks_data' = ListOf(0)
                    /\ chunk_data' = [chunk_data EXCEPT ![r] = None]
                    /\ SendOrRaise(r, extract(r, 0, attrs, None, config),
                                   "loop", inflight)
               ELSE /\ UNCHANGED <<chunks_data, chunk_data>>
                    /\ IF n = 0
                       THEN Raise(r, "IndexError", inflight)
                       ELSE SendOrRaise(r, extract(r, 0, attrs, None, config),
                                        "single", inflight)

\* the awaited extract call of the loop is answered with completion c: parse,
\* append to self.chunks_data, then the next window's call or the merge call
LoopExtractReturn(r, c) ==
    /\ pc[r] = "loop"
    /\ \E req \in inflight :
        /\ req.run = r
        /\ req.kind = "extract"
        /\ UNCHANGED <<config, chunks, attributes>>
        /\ IF ~ParseOk(c)
           THEN /\ returns' = [returns EXCEPT ![r] = Append(@, Outcome("unparsable", None, "OutputParserException"))]
                /\ Raise(r, "OutputParserException", inflight \ {req})
                /\ UNCHANGED <<chunks_data, chunk_data, window>>
           ELSE LET v == Parse(c)
                    cd == AppendChunk(chunks_data, v)
                IN  /\ returns' = [returns EXCEPT ![r] = Append(@, Outcome("ok", v, NoError))]
                    /\ chunk_data' = [chunk_data EXCEPT ![r] = v]
                    /\ chunks_data' = cd
                    /\ IF LoopDone(window[r], chunks[r])
                       THEN /\ UNCHANGED window
                            /\ SendOrRaise(r, merge_all_data(r, cd, attributes[r], config),
                                           "merging", inflight \ {req})
                       ELSE /\ window' = [window EXCEPT ![r] = @ + 1]
                            /\ SendOrRaise(r, extract(r, window[r] + 1, attributes[r], v, config),
                                           "loop", inflight \ {req})

\* variant: the loop catches the exception of a window's call and goes on
\* with the next window, or with the merge after the last one
CallRaiseSkip(r, e) ==
    /\ pc[r] = "loop"
    /\ \E req \in inflight :
        /\ req.run = r
        /\ returns' = [returns EXCEPT ![r] = Append(@, Outcome("raised", None, e))]
        /\ IF LoopDone(window[r], chunks[r])
           THEN /\ UNCHANGED window
                /\ SendOrRaise(r, merge_all_data(r, chunks_data, attributes[r], config),
                               "merging", inflight \ {req})
           ELSE /\ window' = [window EXCEPT ![r] = @ + 1]
                /\ SendOrRaise(r, extract(r, window[r] + 1, attributes[r],
                                          chunk_data[r], config),
                               "loop", inflight \ {req})
    /\ UNCHANGED <<config, chunks_data, chunks, attributes, chunk_data>>

\* the awaited model call of a step raises (model failure, timeout, or
\* cancellation of the awaiting task): nothing catches it
CallRaise(r, e) ==
    /\ pc[r] \in {"loop", "single", "merging"}
    /\ \E req \in inflight :
        /\ req.run = r
        /\ returns' = [returns EXCEPT ![r] = Append(@, Outcome("raised", None, e))]
        /\ Raise(r, e, inflight \ {req})
    /\ UNCHANGED <<config, chunks_data, chunks, attributes, chunk_data, window>>

\* variant: when the answer to the merge call does not parse, run returns
\* the last partial instead of raising
FinalReturnFallback(r, c) ==
    /\ pc[r] \in {"single", "merging"}
    /\ \E req \in inflight :
        /\ req.run = r
        /\ IF ~ParseOk(c)
           THEN /\ returns' = [returns EXCEPT ![r] = Append(@, Outcome("unparsable", None, "OutputParserException"))]
                /\ IF pc[r] = "merging"
                   THEN /\ pc' = [pc EXCEPT ![r] = "returned"]
                        /\ output' = [output EXCEPT ![r] = chunk_data[r]]
                        /\ inflight' = inflight \ {req}
                        /\ UNCHANGED <<error, calls>>
                   ELSE Raise(r, "OutputParserException", inflight \ {req})
           ELSE /\ returns' = [returns EXCEPT ![r] = Append(@, Outcome("ok", Parse(c), NoError))]
                /\ pc' = [pc EXCEPT ![r] = "returned"]
                /\ output' = [output EXCEPT ![r] = Parse(c)]
                /\ inflight' = inflight \ {req}
                /\ UNCHANGED <<error, calls>>
    /\ UNCHANGED <<config, chunks_data, chunks, attributes, chunk_data, window>>

\* the single extract call or the merge call is answered: parse and return
FinalReturn(r, c) ==
    /\ pc[r] \in {"single", "merging"}
    /\ \E req \in inflight :
        /\ req.run = r
        /\ IF ~ParseOk(c)
           THEN /\ returns' = [returns EXCEPT ![r] = Append(@, Outcome("unparsable", None, "OutputParserException"))]
                /\ Raise(r, "OutputParserException", inflight \ {req})
           ELSE /\ returns' = [returns EXCEPT ![r] = Append(@, Outcome("ok", Parse(c), NoError))]
                /\ pc' = [pc EXCEPT ![r] = "returned"]
                /\ output' = [output EXCEPT ![r] = Parse(c)]
                /\ inflight' = inflight \ {req}
                /\ UNCHANGED <<error, calls>>
    /\ UNCHANGED <<config, chunks_data, chunks, attributes, chunk_data, window>>

\* two run calls on one extractor, interleaved at their awaits
Next ==
    \E r \in Runs :
        \/ \E n \in 0..ConcWindows, attrs \in AttributeArgs : RunCall(r, n, attrs)
        \/ \E c \in Completions(ConcValues) : LoopExtractReturn(r, c)
        \/ \E c \in Completions(ConcValues) : FinalReturn(r, c)
        \/ \E e \in CallErrors : CallRaise(r, e)

Spec == Init /\ [][Next]_vars

\* one run call on a fresh extractor, nothing else running
NextSingle ==
    \/ \E n \in 0..MaxWindows, attrs \in AttributeArgs : RunCall("A", n, attrs)
    \/ \E c \in Completions(SingleValues) : LoopExtractReturn("A", c)
    \/ \E c \in Completions(SingleValues) : FinalReturn("A", c)
    \/ \E e \in CallErrors : CallRaise("A", e)

SingleSpec == Init /\ [][NextSingle]_vars

\* the human and system messages of two requests are the same text
SameContent(q1, q2) == [q1 EXCEPT !.run = ""] = [q2 EXCEPT !.run = ""]

\* what the awaiting run gets from a model call answered with completion c
OutcomeOf(c) ==
    IF ParseOk(c) THEN Outcome("ok", Parse(c), NoError)
    ELSE Outcome("unparsable", None, "OutputParserException")

\* a deterministic stub model: the outcome o of r's call is the outcome the
\* other run on the same document got for a request with the same messages
StubAgrees(r, o) ==
    \A q \in Runs \ {r} :
        (Len(returns[q]) >= 1 /\ SameContent(calls[q][1], calls[r][1])) =>
            returns[q][1] = o

\* the stub answers the single extract call of r
StubFinalReturn(r, c) ==
    /\ pc[r] = "single"
    /\ StubAgrees(r, OutcomeOf(c))
    /\ FinalReturn(r, c)

\* the stub raises on the single extract call of r
StubCallRaise(r, e) ==
    /\ pc[r] = "single"
    /\ StubAgrees(r, Outcome("raised", None, e))
    /\ CallRaise(r, e)

\* run is called twice (A, B) on one single-window document with a
\* deterministic stub model, and once more (Between) on any other document,
\* in any order and interleaving
NextRepeat ==
    \/ \E r \in Runs, attrs \in AttributeArgs : RunCall(r, 1, attrs)
    \/ \E r \in Runs, c \in Completions(ConcValues) : StubFinalReturn(r, c)
    \/ \E r \in Runs, e \in CallErrors : StubCallRaise(r, e)
    \/ \E n \in 0..ConcWindows, attrs \in AttributeArgs : RunCall(Between, n, attrs)
    \/ \E c \in Completions(ConcValues) : LoopExtractReturn(Between, c)
    \/ \E c \in Completions(ConcValues) : FinalReturn(Between, c)
    \/ \E e \in CallErrors : CallRaise(Between, e)

RepeatSpec == Init /\ [][NextRepeat]_vars

\* ------------------------------------------------------------------- claims
Started(r) == pc[r] # "idle"

IsExtract(q) == q.kind = "extract"

IsMerge(q) == q.kind = "merge"

IsFresh(q) == q.template = "prompt_template"

IsContinuation(q) == q.template = "append_prompt_template"

\* C1: a run whose split gave exactly one window has issued exactly one
\* model call, an extraction call built from the plain template (no
\* continuation), never a merge call, and what it returns is the value
\* parsed from the answer to that one call.
C1_SingleWindowOneCall ==
    \A r \in Runs :
        chunks[r] = 1 =>
            /\ Len(calls[r]) = 1
            /\ IsExtract(calls[r][1])
            /\ IsFresh(calls[r][1])
            /\ calls[r][1].previous_data = NoText
            /\ pc[r] = "returned" =>
                /\ Len(returns[r]) = 1
                /\ returns[r][1].status = "ok"
                /\ output[r] = returns[r][1].value

C1_Witness ==
    \E r \in Runs :
        /\ chunks[r] = 1
        /\ pc[r] = "returned"
        /\ output[r] = ListOf(1)

\* C2: within one run at most one model call is in flight, and every call
\* after the first was issued only once the call before it had been
\* answered with a value: the call for window i+1 never precedes the
\* PartialResult of window i.
C2_OneCallAtATime ==
    \A r \in Runs :
        /\ Cardinality({q \in inflight : q.run = r}) <= 1
        /\ \A k \in 2..Len(calls[r]) :
            /\ Len(returns[r]) >= k - 1
            /\ returns[r][k - 1].status = "ok"
            /\ IsExtract(calls[r][k]) => calls[r][k].window = calls[r][k - 1].window + 1

C2_Witness ==
    \E r \in Runs :
        /\ chunks[r] = 2
        /\ pc[r] = "loop"
        /\ window[r] = 1
        /\ Len(returns[r]) = 1
        /\ \E q \in inflight : q.run = r /\ q.window = 1

\* C3: in a run over N > 1 windows the merge call is the (N+1)-th call, the
\* N calls before it are the extraction calls of windows 0..N-1, one each,
\* all answered with a value before the merge call is issued; a run that
\* returns has issued exactly these N+1 calls and returns the value parsed
\* from the answer to the merge call.
C3_MergeOnceAfterAll ==
    LET r == "A"
        n == chunks[r]
    IN  n > 1 =>
            /\ \A k \in 1..Len(calls[r]) :
                IsMerge(calls[r][k]) =>
                    /\ k = n + 1
                    /\ \A j \in 1..n :
                        /\ IsExtract(calls[r][j])
                        /\ calls[r][j].window = j - 1
                        /\ returns[r][j].status = "ok"
            /\ pc[r] = "returned" =>
                /\ Len(calls[r]) = n + 1
                /\ IsMerge(calls[r][n + 1])
                /\ returns[r][n + 1].status = "ok"
                /\ output[r] = returns[r][n + 1].value

C3_Witness ==
    /\ chunks["A"] = 3
    /\ pc["A"] = "returned"
    /\ Len(calls["A"]) = 4
    /\ output["A"] = ListOf(2)

\* the records a request carries as its continuation
TailOf(q) == q.previous_data.json.items

\* C4: when window i's PartialResult is a list of L >= 1 records and the
\* next call is a continuation request, the tail in that request has
\* K = max(1, ceil(L / overlap_factor)) records, i.e. K >= 1,
\* K * overlap_factor >= L and K = 1 or (K - 1) * overlap_factor < L, and
\* they are the last K records of the PartialResult in their order.
C4_ContinuationTail ==
    \A k \in 2..Len(calls["A"]) :
        LET q == calls["A"][k]
            prev == returns["A"][k - 1].value
            L == Len(prev.items)
            K == Len(TailOf(q))
        IN  (IsExtract(q) /\ prev.kind = "list" /\ L >= 1) =>
                /\ IsContinuation(q)
                /\ K >= 1
                /\ K * overlap_factor >= L
                /\ K = 1 \/ (K - 1) * overlap_factor < L
                /\ \A j \in 1..K : TailOf(q)[j] = prev.items[L - K + j]

C4_Witness ==
    \E k \in 2..Len(calls["A"]) :
        /\ IsContinuation(calls["A"][k])
        /\ Len(returns["A"][k - 1].value.items) = 5
        /\ TailOf(calls["A"][k]) = <<4, 5>>

\* C5: in a multi-window run the call for window 0 is a fresh request, and
\* the call for every later window is a continuation request whose tail is
\* taken from the PartialResult of the window just before it, whatever that
\* PartialResult is (on an extractor that has all its prompts).
C5_ContinuationFromPrevious ==
    \A r \in Runs :
        (config = AllPresent /\ chunks[r] > 1) =>
            \A k \in 1..Len(calls[r]) :
                IsExtract(calls[r][k]) =>
                    IF k = 1
                    THEN IsFresh(calls[r][k]) /\ calls[r][k].previous_data = NoText
                    ELSE /\ IsContinuation(calls[r][k])
                         /\ LET prev == returns[r][k - 1].value.items
                                t == TailOf(calls[r][k])
                            IN  /\ Len(t) <= Len(prev)
                                /\ \A j \in 1..Len(t) :
                                    t[j] = prev[Len(prev) - Len(t) + j]

\* C6: when the extraction call of some window of a multi-window run
\* raises, the run has failed with that very exception, has returned
\* nothing, and that call is the last call it issued: no later window is
\* extracted and no merge call is made.
C6_ExtractFailureAborts ==
    LET r == "A" IN
    chunks[r] > 1 =>
        \A k \in 1..Len(returns[r]) :
            (IsExtract(calls[r][k]) /\ returns[r][k].status = "raised") =>
                /\ pc[r] = "failed"
                /\ error[r] = returns[r][k].error
                /\ output[r] = None
                /\ Len(calls[r]) = k

C6_Witness ==
    /\ chunks["A"] = 3
    /\ Len(returns["A"]) = 2
    /\ returns["A"][2].status = "raised"
    /\ error["A"] = "CancelledError"
    /\ pc["A"] = "failed"

\* the values run r got back from its own extraction calls, as JSON texts,
\* in window order
OwnPartials(r) ==
    [i \in 1..chunks[r] |-> Dumps(returns[r][i].value)]

\* C7: whatever the interleaving of the two runs on the extractor, the
\* merge call of each run carries exactly that run's own PartialResults,
\* one per window of its document, in window order (on an extractor that
\* has all its prompts).
C7_RunsShareNothing ==
    \A r \in Runs :
        \A k \in 1..Len(calls[r]) :
            (config = AllPresent /\ IsMerge(calls[r][k])) =>
                calls[r][k].jsons_list = OwnPartials(r)

\* something run r needs is absent: one of the two prompts of every
\* extraction call, the attribute schema of a document that has a window to
\* extract from, or, for a document of several windows, the continuation
\* template or the merge template
ConfigurationAbsent(r) ==
    \/ ~config.system_prompt
    \/ ~config.prompt_template
    \/ chunks[r] >= 1 /\ attributes[r] = None
    \/ chunks[r] > 1 /\ ~config.append_prompt_template
    \/ chunks[r] > 1 /\ ~config.prompt_merge_template

\* C8: a run that was called while something it needs is absent has failed
\* with the configuration error and has issued no model call at all.
C8_FailFastOnConfiguration ==
    \A r \in Runs :
        (Started(r) /\ ConfigurationAbsent(r)) =>
            /\ pc[r] = "failed"
            /\ error[r] = "ValueError"
            /\ Len(calls[r]) = 0

\* C9: the merge call of a run on its own is issued at most once and carries
\* N texts, the i-th being the JSON of the value the call for window i-1
\* returned, unchanged.
C9_MergeInputIsAllPartials ==
    LET r == "A"
        merges == {k \in 1..Len(calls[r]) : IsMerge(calls[r][k])}
    IN  /\ Cardinality(merges) <= 1
        /\ \A k \in merges :
            LET m == calls[r][k].jsons_list IN
            /\ Len(m) = chunks[r]
            /\ \A i \in 1..Len(m) :
                /\ calls[r][i].window = i - 1
                /\ returns[r][i].status = "ok"
                /\ m[i] = Dumps(returns[r][i].value)

C9_Witness ==
    /\ chunks["A"] = 3
    /\ pc["A"] = "merging"
    /\ calls["A"][4].jsons_list = <<Dumps(ListOf(2)), Dumps(DictOf(1)), Dumps(ListOf(0))>>

\* C10: a model call that raised or an answer that did not parse leaves the
\* run failed with that very exception, with nothing returned and no call
\* issued after it; a multi-window run that returns returns the value
\* parsed from the answer to its merge call.
C10_NoFallback ==
    LET r == "A"
        last == Len(calls[r])
    IN  /\ \A k \in 1..Len(returns[r]) :
            returns[r][k].status # "ok" =>
                /\ pc[r] = "failed"
                /\ error[r] = returns[r][k].error
                /\ output[r] = None
                /\ k = last
        /\ (pc[r] = "returned" /\ chunks[r] > 1) =>
                /\ IsMerge(calls[r][last])
                /\ returns[r][last].status = "ok"
                /\ output[r] = returns[r][last].value

C10_Witness ==
    /\ chunks["A"] = 2
    /\ pc["A"] = "failed"
    /\ Len(calls["A"]) = 3
    /\ IsMerge(calls["A"][3])
    /\ returns["A"][3].status = "unparsable"
    /\ error["A"] = "OutputParserException"
    /\ returns["A"][1].value = ListOf(1)

Finished(r) == pc[r] \in {"returned", "failed"}

\* C11: once the run on the extractor has finished, returned or failed, the
\* extractor holds none of its PartialResults (on an extractor that has all
\* its prompts).
C11_NoPartialsKept ==
    (config = AllPresent /\ Finished("A")) => Len(chunks_data.items) = 0

\* the number of records in the first n answers of run r
RECURSIVE RecordCount(_, _)
RecordCount(r, n) ==
    IF n = 0 THEN 0
    ELSE RecordCount(r, n - 1) + Len(returns[r][n].value.items)

\* C12: the FinalResult a multi-window run returns has at most as many
\* records as its PartialResults have together (on an extractor that has
\* all its prompts).
C12_FinalNotLongerThanPartials ==
    LET r == "A" IN
    (config = AllPresent /\ pc[r] = "returned" /\ chunks[r] > 1) =>
        Len(output[r].items) <= RecordCount(r, chunks[r])

\* C14: only a list of records is accepted as a PartialResult: whatever is
\* appended to the partial list or kept as the source of the next
\* continuation is a list (on an extractor that has all its prompts).
C14_OnlyListsAccepted ==
    config = AllPresent =>
        /\ \A i \in 1..Len(chunks_data.items) : chunks_data.items[i].kind = "list"
        /\ chunk_data["A"].kind \in {"none", "list"}

\* C15: a run whose split gave no window at all has failed with the
\* IndexError of chunks[0], has issued no model call, and has returned
\* nothing.  (With both validated prompts present, a started run whose
\* window count is 0 is one whose split gave zero windows.)
C15_ZeroWindowsFail ==
    \A r \in Runs :
        (Started(r) /\ config.system_prompt /\ config.prompt_template
                    /\ chunks[r] = 0) =>
            /\ pc[r] = "failed"
            /\ error[r] = "IndexError"
            /\ Len(calls[r]) = 0
            /\ output[r] = None
            /\ \A q \in inflight : q.run # r

C15_Witness ==
    \E r \in Runs :
        /\ config = AllPresent
        /\ chunks[r] = 0
        /\ error[r] = "IndexError"

\* C16: every extraction call, fresh or continuation, carries the system
\* message built from system_prompt, every merge call the one built from
\* system_merge_prompt, and no call carries append_system_prompt.
C16_SystemInstruction ==
    \A r \in Runs :
        \A k \in 1..Len(calls[r]) :
            LET q == calls[r][k] IN
            /\ IsExtract(q) => q.system = "system_prompt"
            /\ IsMerge(q) => q.system = "system_merge_prompt"
            /\ q.system # "append_system_prompt"

C16_Witness ==
    \E r \in Runs :
        /\ Len(calls[r]) = 3
        /\ IsFresh(calls[r][1])
        /\ IsContinuation(calls[r][2])
        /\ calls[r][2].system = "system_prompt"
        /\ calls[r][3].system = "system_merge_prompt"

\* C13: two run calls on the same single-window document with the same
\* attribute schema, answered by a deterministic stub, end the same way:
\* both return the same FinalResult or both raise the same exception,
\* whatever the further run did on the extractor before, between or during
\* them.
C13_SingleWindowRepeatable ==
    (/\ Finished("A") /\ Finished("B")
     /\ chunks["A"] = 1 /\ chunks["B"] = 1
     /\ attributes["A"] = attributes["B"]) =>
        /\ Len(calls["A"]) = 1 /\ Len(calls["B"]) = 1
        /\ SameContent(calls["A"][1], calls["B"][1])
        /\ pc["A"] = pc["B"]
        /\ output["A"] = output["B"]
        /\ error["A"] = error["B"]

C13_Witness ==
    /\ pc["A"] = "returned" /\ pc["B"] = "returned"
    /\ chunks["A"] = 1 /\ chunks["B"] = 1
    /\ attributes["A"] = Schema /\ attributes["B"] = Schema
    /\ output["A"] = ListOf(1) /\ output["B"] = ListOf(1)
    /\ pc[Between] = "returned" /\ chunks[Between] = 2
    /\ chunks_data.items = <<ListOf(1), ListOf(1)>>

====
